---- MODULE Spec2Model ----
(***************************************************************************)
(* living-memory: a file-backed memory store behind a tool-call handler.   *)
(* The storage root is modelled as a map from relative paths to nodes,     *)
(* text (file contents, names, payloads) as sequences of tokens.           *)
(* Two builds of the program are in the repository: the TypeScript source  *)
(* (fs.renameSync / fs.mkdirSync, errors wrapped in FileOperationError)    *)
(* and the compiled script (shelljs mv / mkdir); impl selects the build.   *)
(***************************************************************************)
EXTENDS Integers, Sequences, FiniteSets, TLC

VARIABLES impl, fs, memoryGraph, clock, nOps, req, resp, pre

vars == <<impl, fs, memoryGraph, clock, nOps, req, resp, pre>>

\* Number of tool invocations in a run.
MaxOps == 2
\* Number of characters in a content or query argument.
MaxLen == 1
\* Number of connectTags calls in a run, and of tags in one call.
MaxCalls == 3
MaxTags == 3

----------------------------------------------------------------------------
(* Text *)

\* Characters of contents and queries: a lower/upper-case pair and a digit
\* (a file holding only digits is valid JSON that is not a record).
Chars == {"a", "A", "1"}

RECURSIVE SeqsUpTo(_, _)
SeqsUpTo(S, n) ==
  IF n = 0 THEN {<<>>}
  ELSE LET shorter == SeqsUpTo(S, n - 1)
       IN  shorter \cup {Append(s, c) : s \in shorter, c \in S}

Contents == SeqsUpTo(Chars, MaxLen) \ {<<>>}

\* String.prototype.toLowerCase, per character.
LowerChar(c) == IF c = "A" THEN "a" ELSE c

ToLowerCase(s) == [i \in 1..Len(s) |-> LowerChar(s[i])]

\* String.prototype.includes: q occurs in s as a contiguous substring.
Includes(s, q) ==
  \E i \in 0..(Len(s) - Len(q)) : \A j \in 1..Len(q) : s[i + j] = q[j]

RECURSIVE Split(_, _)
\* String.prototype.split(sep) for a one-token separator.
Split(s, sep) ==
  IF \A i \in 1..Len(s) : s[i] # sep THEN <<s>>
  ELSE LET k == CHOOSE i \in 1..Len(s) :
                   s[i] = sep /\ \A j \in 1..(i - 1) : s[j] # sep
       IN  <<SubSeq(s, 1, k - 1)>> \o Split(SubSeq(s, k + 1, Len(s)), sep)

RECURSIVE Join(_, _)
\* Array.prototype.join(sep).
Join(parts, sep) ==
  IF Len(parts) = 0 THEN <<>>
  ELSE IF Len(parts) = 1 THEN parts[1]
  ELSE parts[1] \o <<sep>> \o Join(Tail(parts), sep)

RECURSIVE Flatten(_)
Flatten(parts) ==
  IF Len(parts) = 0 THEN <<>> ELSE parts[1] \o Flatten(Tail(parts))

----------------------------------------------------------------------------
(* Names and paths.  A name component is a sequence of tokens, so that the *)
(* ".json" suffix is something the code adds and tests; a path is a        *)
(* sequence of components relative to the storage root.                    *)

JsonExt == ".json"
ARCHIVE == <<"ARCHIVE">>
DIRECTORY == <<"DIRECTORY.txt">>
CompA == <<"a">>
CompAJson == <<"a", JsonExt>>
\* The segment ".." of a path argument.
DotDot == <<"..">>

\* path.join(MEMORY_DIR, "ARCHIVE"), path.join(MEMORY_DIR, "DIRECTORY.txt")
ARCHIVE_DIR == <<ARCHIVE>>
DIRECTORY_FILE == <<DIRECTORY>>
\* The text of MEMORY_DIR itself, as the code prints it.
MEMORY_DIR == <<"MEMORY_DIR">>
\* path.join(MEMORY_DIR, ".."): the directory the storage root is in.  A path
\* that begins with ".." is a path outside the storage root.
PARENT_DIR == <<DotDot>>
Outside(p) == Len(p) > 0 /\ p[1] = DotDot

\* The path arguments the callers pass.
NameArgs == {<<CompA>>, <<CompAJson>>, ARCHIVE_DIR, <<ARCHIVE, CompA>>, DIRECTORY_FILE,
             <<DotDot, CompA>>}

\* `${name}.json`
AddJson(p) == [p EXCEPT ![Len(p)] = Append(@, JsonExt)]

\* String.prototype.endsWith(".json") on a directory entry.
EndsWithJson(c) == Len(c) > 0 /\ c[Len(c)] = JsonExt

\* The text of a relative path: components joined by "/".
PathText(p) == Join(p, "/")

\* path.join(dir, item) as text, for dir given as text.
FullText(p) == IF p = <<>> THEN MEMORY_DIR ELSE MEMORY_DIR \o <<"/">> \o PathText(p)

\* Byte order of the tokens that occur in names.
TokOrder == <<"..", JsonExt, "ARCHIVE", "DIRECTORY.txt", "MEMORY_DIR", "a">>
TokRank(t) == CHOOSE i \in 1..Len(TokOrder) : TokOrder[i] = t

RECURSIVE CompLess(_, _)
CompLess(x, y) ==
  IF x = <<>> THEN y # <<>>
  ELSE IF y = <<>> THEN FALSE
  ELSE IF x[1] = y[1] THEN CompLess(Tail(x), Tail(y))
  ELSE TokRank(x[1]) < TokRank(y[1])

RECURSIVE SortComps(_)
SortComps(S) ==
  IF S = {} THEN <<>>
  ELSE LET m == CHOOSE x \in S : \A y \in S \ {x} : CompLess(x, y)
       IN  <<m>> \o SortComps(S \ {m})

Parent(p) == SubSeq(p, 1, Len(p) - 1)
Base(p) == p[Len(p)]
IsPrefix(p, q) == Len(p) <= Len(q) /\ SubSeq(q, 1, Len(p)) = p

----------------------------------------------------------------------------
(* The filesystem: fs maps each existing path, relative to the storage     *)
(* root, to its node; the root itself is the empty path.  The root and the *)
(* directory it is in exist throughout.                                    *)

DirNode == [kind |-> "dir", data |-> <<>>]
FileNode(d) == [kind |-> "file", data |-> d]

Exists(f, p) == p = <<>> \/ p = PARENT_DIR \/ p \in DOMAIN f
IsDir(f, p) == p = <<>> \/ p = PARENT_DIR \/ (p \in DOMAIN f /\ f[p].kind = "dir")
IsFile(f, p) == p \in DOMAIN f /\ f[p].kind = "file"
Under(f, p) == {q \in DOMAIN f : IsPrefix(p, q)}

\* fs.readdirSync(dir): the entries of a directory, in byte order.
Readdir(f, p) == SortComps({Base(q) : q \in {r \in DOMAIN f : Len(r) = Len(p) + 1 /\ IsPrefix(p, r)}})

\* The error of walking to the parent of p, "" when the parent is a directory.
ParentErr(f, p) ==
  IF IsDir(f, Parent(p)) THEN ""
  ELSE IF \E k \in 1..(Len(p) - 1) : IsFile(f, SubSeq(p, 1, k)) THEN "ENOTDIR"
  ELSE "ENOENT"

Ok(f) == [err |-> "", fs |-> f]
Fail(code, f) == [err |-> code, fs |-> f]

Put(f, p, node) == [q \in DOMAIN f \cup {p} |-> IF q = p THEN node ELSE f[q]]

\* fs.writeFileSync(path, data)
WriteFileSync(f, p, data) ==
  IF p = <<>> THEN Fail("EISDIR", f)
  ELSE IF ~IsDir(f, Parent(p)) THEN Fail(ParentErr(f, p), f)
  ELSE IF IsDir(f, p) THEN Fail("EISDIR", f)
  ELSE Ok(Put(f, p, FileNode(data)))

\* A variant of appendFileSync that replaces the content of the file.
AppendFileSyncReplacing(f, p, data) ==
  IF p = <<>> THEN Fail("EISDIR", f)
  ELSE IF ~IsDir(f, Parent(p)) THEN Fail(ParentErr(f, p), f)
  ELSE IF IsDir(f, p) THEN Fail("EISDIR", f)
  ELSE Ok(Put(f, p, FileNode(data)))

\* fs.appendFileSync(path, data): flag "a" creates the file when missing.
AppendFileSync(f, p, data) ==
  IF p = <<>> THEN Fail("EISDIR", f)
  ELSE IF ~IsDir(f, Parent(p)) THEN Fail(ParentErr(f, p), f)
  ELSE IF IsDir(f, p) THEN Fail("EISDIR", f)
  ELSE Ok(Put(f, p, FileNode((IF IsFile(f, p) THEN f[p].data ELSE <<>>) \o data)))

\* fs.readFileSync(path, "utf-8")
ReadFileSync(f, p) ==
  IF p = <<>> THEN [err |-> "EISDIR", data |-> <<>>]
  ELSE IF ~IsDir(f, Parent(p)) THEN [err |-> ParentErr(f, p), data |-> <<>>]
  ELSE IF ~Exists(f, p) THEN [err |-> "ENOENT", data |-> <<>>]
  ELSE IF IsDir(f, p) THEN [err |-> "EISDIR", data |-> <<>>]
  ELSE [err |-> "", data |-> f[p].data]

\* fs.mkdirSync(path, { recursive: true })
MkdirRecursive(f, p) ==
  IF IsFile(f, p) THEN Fail("EEXIST", f)
  ELSE IF \E k \in 1..Len(p) : IsFile(f, SubSeq(p, 1, k)) THEN Fail("ENOTDIR", f)
  ELSE LET made == {SubSeq(p, 1, k) : k \in 1..Len(p)} \ {PARENT_DIR}
       IN  Ok([q \in DOMAIN f \cup made |-> IF q \in DOMAIN f THEN f[q] ELSE DirNode])

\* The tree at s moved to d (d absent, or replaced).
MoveTree(f, s, d) ==
  LET moved == Under(f, s)
      kept  == (DOMAIN f \ moved) \ Under(f, d)
      dest(q) == d \o SubSeq(q, Len(s) + 1, Len(q))
  IN  [q \in kept \cup {dest(r) : r \in moved} |->
         IF q \in kept THEN f[q]
         ELSE f[CHOOSE r \in moved : dest(r) = q]]

\* fs.renameSync(oldPath, newPath), rename(2).
RenameSync(f, s, d) ==
  IF s = <<>> \/ d = <<>> THEN Fail("EBUSY", f)
  ELSE IF ~IsDir(f, Parent(s)) THEN Fail(ParentErr(f, s), f)
  ELSE IF ~Exists(f, s) THEN Fail("ENOENT", f)
  ELSE IF ~IsDir(f, Parent(d)) THEN Fail(ParentErr(f, d), f)
  ELSE IF s = d THEN Ok(f)
  ELSE IF IsPrefix(s, d) THEN Fail("EINVAL", f)
  ELSE IF IsFile(f, s) /\ IsDir(f, d) THEN Fail("EISDIR", f)
  ELSE IF IsDir(f, s) /\ IsFile(f, d) THEN Fail("ENOTDIR", f)
  ELSE IF IsDir(f, s) /\ IsDir(f, d) /\ Under(f, d) # {d} THEN Fail("ENOTEMPTY", f)
  ELSE Ok(MoveTree(f, s, d))

----------------------------------------------------------------------------
(* shelljs, as the compiled script calls it: mv and mkdir report their     *)
(* errors on stderr and return; they do not throw.                         *)

\* shx.mv(source, dest): a missing source is skipped, an existing directory
\* as dest receives the source under its own name, moving a directory into
\* itself is refused, and an error of the rename is swallowed.
ShxMvTo(f, s, thisDest) ==
  IF s = Parent(thisDest) THEN f ELSE RenameSync(f, s, thisDest).fs

ShxMv(f, s, d) ==
  IF ~Exists(f, s) THEN f
  ELSE ShxMvTo(f, s, IF IsDir(f, d) THEN Append(d, Base(s)) ELSE d)

\* shx.mkdir(dir), without -p: an existing path or a missing parent is an
\* error that is reported, not thrown.
ShxMkdir(f, p) ==
  IF Exists(f, p) THEN f
  ELSE IF ~IsDir(f, Parent(p)) THEN f
  ELSE Put(f, p, DirNode)

----------------------------------------------------------------------------
(* The manifest synchronizer *)

\* The branch glyphs and the indentation of the tree text; the source
\* writes them with box-drawing characters.
GlyphLast == "+-- "
GlyphMid == "|-- "
IndentLast == "    "
IndentMid == "|   "
NL == "\n"

\* The lines of a subdirectory's text, each behind the indentation.
Indented(indent, lines) == Join([k \in 1..Len(lines) |-> <<indent>> \o lines[k]], NL)

RECURSIVE generateDirectoryTree(_, _)
RECURSIVE TreeItems(_, _, _, _)
\* The text of items[i..] of directory p: a line per item, and below a
\* directory its own text, split at the newlines, each piece indented and
\* the pieces joined again.  The piece after the final newline of that text
\* (the empty one) is indented as well, and the joined text does not end in
\* a newline.
TreeItems(f, p, items, i) ==
  IF i > Len(items) THEN <<>>
  ELSE (IF IsDir(f, Append(p, items[i]))
        THEN <<IF i = Len(items) THEN GlyphLast ELSE GlyphMid>> \o items[i] \o <<"/", NL>>
             \o Indented(IF i = Len(items) THEN IndentLast ELSE IndentMid,
                         Split(generateDirectoryTree(f, Append(p, items[i])), NL))
        ELSE <<IF i = Len(items) THEN GlyphLast ELSE GlyphMid>> \o items[i] \o <<NL>>)
       \o TreeItems(f, p, items, i + 1)

\* The tree text of directory p: its path, then its items.
generateDirectoryTree(f, p) ==
  FullText(p) \o <<NL>> \o TreeItems(f, p, Readdir(f, p), 1)

\* updateDirectoryFile(): the tree is computed first, then written to the
\* manifest path.  ioFault is the write of the manifest failing in the
\* environment (EACCES, ENOSPC).
updateDirectoryFile(f, ioFault) ==
  IF ioFault THEN Fail("EACCES", f)
  ELSE WriteFileSync(f, DIRECTORY_FILE, generateDirectoryTree(f, <<>>))

\* initializeDirectory() on a root that does not exist yet.
initializeDirectory ==
  updateDirectoryFile(Put(<<>>, ARCHIVE_DIR, DirNode), FALSE).fs

----------------------------------------------------------------------------
(* Records and their serialization.  A string is a sequence of tokens; the *)
(* serialized record is the text JSON.stringify writes, without the        *)
(* whitespace of its indentation.  The characters of Chars need no escape. *)

DQ == "\""
KeyTimestamp == "\"timestamp\":"
KeyId == "\"id\":"
KeyTags == "\"tags\":"
KeyContent == "\"content\":"

\* new Date().toISOString() and Date.now().toString() at time t.
ToISOString(t) == <<"T", ToString(t)>>
NowString(t) == <<ToString(t)>>

Quoted(str) == <<DQ>> \o str \o <<DQ>>

\* JSON.stringify(memory, null, 2)
Stringify(m) ==
  <<"{", KeyTimestamp>> \o Quoted(m.timestamp) \o <<",", KeyId>> \o Quoted(m.id)
  \o <<",", KeyTags, "[">>
  \o Join([i \in 1..Len(m.tags) |-> Quoted(m.tags[i])], ",")
  \o <<"]", ",", KeyContent>> \o Quoted(m.content) \o <<"}">>

NoParse == [ok |-> FALSE, kind |-> "none", timestamp |-> <<>>, id |-> <<>>,
            tags |-> <<>>, content |-> <<>>]
NumberValue == [NoParse EXCEPT !.ok = TRUE, !.kind = "number"]

\* A string literal starting at position i of text: its value and the
\* position after its closing quote (0 when there is no literal at i).
StringTo(text, i, j) == [next |-> j + 1, val |-> SubSeq(text, i + 1, j - 1)]

ReadString(text, i) ==
  IF i > Len(text) \/ text[i] # DQ \/ ~(\E j \in (i + 1)..Len(text) : text[j] = DQ)
  THEN [next |-> 0, val |-> <<>>]
  ELSE StringTo(text, i, CHOOSE k \in (i + 1)..Len(text) :
                           text[k] = DQ /\ \A l \in (i + 1)..(k - 1) : text[l] # DQ)

RECURSIVE ReadTags(_, _, _)
TagsCons(str, rest) ==
  IF rest.next = 0 THEN rest ELSE [next |-> rest.next, val |-> <<str.val>> \o rest.val]

TagsAfter(text, str) ==
  IF str.next = 0 \/ str.next > Len(text) THEN [next |-> 0, val |-> <<>>]
  ELSE IF text[str.next] = "]" THEN [next |-> str.next + 1, val |-> <<str.val>>]
  ELSE IF text[str.next] # "," THEN [next |-> 0, val |-> <<>>]
  ELSE TagsCons(str, ReadTags(text, str.next + 1, FALSE))

\* The elements of an array of strings from position i (after "[" or ","),
\* and the position after its "]" (0 when malformed).
ReadTags(text, i, first) ==
  IF i > Len(text) THEN [next |-> 0, val |-> <<>>]
  ELSE IF first /\ text[i] = "]" THEN [next |-> i + 1, val |-> <<>>]
  ELSE TagsAfter(text, ReadString(text, i))

At(text, i, tok) == i >= 1 /\ i <= Len(text) /\ text[i] = tok

\* The steps of JSON.parse on the text of an object, each given what the
\* step before it read.
ParseContent(text, ts, id, tg, ct) ==
  IF ct.next = 0 \/ ~At(text, ct.next, "}") \/ ct.next # Len(text) THEN NoParse
  ELSE [ok |-> TRUE, kind |-> "object", timestamp |-> ts.val, id |-> id.val,
        tags |-> tg.val, content |-> ct.val]

ParseTags(text, ts, id, tg) ==
  IF tg.next = 0 \/ ~(At(text, tg.next, ",") /\ At(text, tg.next + 1, KeyContent))
  THEN NoParse
  ELSE ParseContent(text, ts, id, tg, ReadString(text, tg.next + 2))

ParseId(text, ts, id) ==
  IF id.next = 0 \/ ~(At(text, id.next, ",") /\ At(text, id.next + 1, KeyTags)
                      /\ At(text, id.next + 2, "["))
  THEN NoParse
  ELSE ParseTags(text, ts, id, ReadTags(text, id.next + 3, TRUE))

ParseTimestamp(text, ts) ==
  IF ts.next = 0 \/ ~(At(text, ts.next, ",") /\ At(text, ts.next + 1, KeyId)) THEN NoParse
  ELSE ParseId(text, ts, ReadString(text, ts.next + 2))

\* JSON.parse(text): a number, an object with the four fields of a record,
\* or a SyntaxError (ok = FALSE).
JSONParse(text) ==
  IF Len(text) > 0 /\ \A i \in 1..Len(text) : text[i] = "1" THEN NumberValue
  ELSE IF ~(At(text, 1, "{") /\ At(text, 2, KeyTimestamp)) THEN NoParse
  ELSE ParseTimestamp(text, ReadString(text, 3))

----------------------------------------------------------------------------
(* Values and outcomes of the manager methods *)

Undefined == [t |-> "undefined", v |-> <<>>]
Str(v) == [t |-> "string", v |-> v]
\* A value that is neither undefined nor a string (a number other than 0).
NumberArg == [t |-> "number", v |-> <<>>]

Returned(f, val) == [threw |-> FALSE, msg |-> <<>>, fs |-> f, value |-> val]
Threw(f, msg) == [threw |-> TRUE, msg |-> msg, fs |-> f, value |-> Undefined]

\* The message of new FileOperationError(operation, path, error); the
\* compiled script has no such wrapping and lets the error through.
FileOperationError(im, operation, pathText, inner) ==
  IF im = "ts" THEN <<"Failed to ", operation, " at ">> \o pathText \o <<": ">> \o inner
  ELSE inner

\* A variant of the end of a mutating method that drops the error of the
\* resynchronization.
SyncedUnchecked(im, operation, pathText, u) == Returned(u.fs, Undefined)

\* The end of a mutating method, u being what updateDirectoryFile() did:
\* its error is wrapped and thrown again by the method.
Synced(im, operation, pathText, u) ==
  IF u.err # ""
  THEN Threw(u.fs, FileOperationError(im, operation, pathText,
               FileOperationError(im, "update directory file",
                                  FullText(DIRECTORY_FILE), <<u.err>>)))
  ELSE Returned(u.fs, Undefined)

\* The rest of a mutating method after its filesystem call w: the error of
\* the call is thrown, otherwise the manifest is resynchronized.
ThenSync(im, operation, pathText, before, w, ioFault) ==
  IF w.err # "" THEN Threw(before, FileOperationError(im, operation, pathText, <<w.err>>))
  ELSE Synced(im, operation, pathText, updateDirectoryFile(w.fs, ioFault))

\* fs.renameSync in the source, shx.mv in the compiled script.
MovePath(im, f, s, d) == IF im = "ts" THEN RenameSync(f, s, d) ELSE Ok(ShxMv(f, s, d))

\* fs.mkdirSync(recursive) in the source, shx.mkdir in the compiled script.
MakeDir(im, f, p) == IF im = "ts" THEN MkdirRecursive(f, p) ELSE Ok(ShxMkdir(f, p))

MoveText(s, d) == PathText(s) \o <<" to ">> \o PathText(d)

----------------------------------------------------------------------------
(* JSONMemoryManager *)

\* Map.get(tag) of the tag graph g, empty for a tag that is no key.
Adjacent(g, tag) == IF tag \in DOMAIN g THEN g[tag] ELSE {}

\* `if (!this.memoryGraph.has(tag)) this.memoryGraph.set(tag, new Set())`
EnsureTag(g, tag) ==
  IF tag \in DOMAIN g THEN g
  ELSE [t \in DOMAIN g \cup {tag} |-> IF t = tag THEN {} ELSE g[t]]

\* A variant of the inner callback that adds the related tag without
\* comparing it with the tag.
RelateAlways(g, tag, relatedTag) == [g EXCEPT ![tag] = @ \cup {relatedTag}]

\* The inner callback of connectTags: the related tag is added to the set
\* of the tag unless it is the tag itself.
Relate(g, tag, relatedTag) ==
  IF tag # relatedTag THEN [g EXCEPT ![tag] = @ \cup {relatedTag}] ELSE g

RECURSIVE RelateFrom(_, _, _, _)
\* The inner forEach from element j of tags on.
RelateFrom(g, tag, tags, j) ==
  IF j > Len(tags) THEN g
  ELSE RelateFrom(Relate(g, tag, tags[j]), tag, tags, j + 1)

RECURSIVE ConnectFrom(_, _, _)
\* The outer forEach from element i of tags on.
ConnectFrom(g, tags, i) ==
  IF i > Len(tags) THEN g
  ELSE ConnectFrom(RelateFrom(EnsureTag(g, tags[i]), tags[i], tags, 1), tags, i + 1)

\* connectTags(tags) on tag graph g.
connectTags(g, tags) == ConnectFrom(g, tags, 1)

\* A variant of createFile that refuses to write over an existing file
\* (flag "wx").
JSON_createFileExclusive(im, f, now, name, content, ioFault) ==
  LET memory == [timestamp |-> ToISOString(now), id |-> NowString(now),
                 tags |-> <<>>, content |-> content]
  IN  ThenSync(im, "create JSON file", PathText(name), f,
               IF IsFile(f, AddJson(name)) THEN Fail("EEXIST", f)
               ELSE WriteFileSync(f, AddJson(name), Stringify(memory)), ioFault)

JSON_createFile(im, f, now, name, content, ioFault) ==
  LET memory == [timestamp |-> ToISOString(now), id |-> NowString(now),
                 tags |-> <<>>, content |-> content]
  IN  ThenSync(im, "create JSON file", PathText(name), f,
               WriteFileSync(f, AddJson(name), Stringify(memory)), ioFault)

JSON_createDir(im, f, name, ioFault) ==
  ThenSync(im, "create directory", PathText(name), f, MakeDir(im, f, name), ioFault)

JSON_moveFile(im, f, source, dest, ioFault) ==
  ThenSync(im, "move file", MoveText(source, dest), f, MovePath(im, f, source, dest), ioFault)

JSON_moveDir(im, f, source, dest, ioFault) ==
  ThenSync(im, "move directory", MoveText(source, dest), f,
           MovePath(im, f, source, dest), ioFault)

\* A variant of appendContent that mints the identifier again.
AppendParsedNewId(im, f, now, file, content, ioFault, r, memory) ==
  IF r.err # ""
  THEN Threw(f, FileOperationError(im, "append content", PathText(file), <<r.err>>))
  ELSE IF ~memory.ok
  THEN Threw(f, FileOperationError(im, "append content", PathText(file), <<"SyntaxError">>))
  ELSE IF memory.kind # "object"
  THEN Threw(f, FileOperationError(im, "append content", PathText(file), <<"TypeError">>))
  ELSE ThenSync(im, "append content", PathText(file), f,
                WriteFileSync(f, file,
                  Stringify([timestamp |-> ToISOString(now), id |-> NowString(now),
                             tags |-> memory.tags, content |-> memory.content \o content])),
                ioFault)

\* appendContent after the read r of the file and the parse of its text:
\* `memory.content += content` throws on a value that is not an object
\* (module code is strict), otherwise the record is written back.
AppendParsed(im, f, now, file, content, ioFault, r, memory) ==
  IF r.err # ""
  THEN Threw(f, FileOperationError(im, "append content", PathText(file), <<r.err>>))
  ELSE IF ~memory.ok
  THEN Threw(f, FileOperationError(im, "append content", PathText(file), <<"SyntaxError">>))
  ELSE IF memory.kind # "object"
  THEN Threw(f, FileOperationError(im, "append content", PathText(file), <<"TypeError">>))
  ELSE ThenSync(im, "append content", PathText(file), f,
                WriteFileSync(f, file,
                  Stringify([timestamp |-> ToISOString(now), id |-> memory.id,
                             tags |-> memory.tags, content |-> memory.content \o content])),
                ioFault)

JSON_appendContent(im, f, now, file, content, ioFault) ==
  AppendParsed(im, f, now, file, content, ioFault, ReadFileSync(f, file),
               JSONParse(ReadFileSync(f, file).data))

JSON_renameFile(im, f, oldName, newName, ioFault) ==
  ThenSync(im, "rename file", MoveText(oldName, newName), f,
           MovePath(im, f, oldName, newName), ioFault)

\* The entries of the root whose name ends in ".json", as full paths.
JSON_readAllFiles(f) ==
  LET names == SelectSeq(Readdir(f, <<>>), EndsWithJson)
  IN  [i \in 1..Len(names) |-> <<names[i]>>]

\* readFileContent after the read and the parse: `.content` of a parsed
\* value that is not an object is undefined.
ContentOfParsed(im, f, file, r, memory) ==
  IF r.err # ""
  THEN Threw(f, FileOperationError(im, "read file content", PathText(file), <<r.err>>))
  ELSE IF ~memory.ok
  THEN Threw(f, FileOperationError(im, "read file content", PathText(file), <<"SyntaxError">>))
  ELSE IF memory.kind # "object" THEN Returned(f, Undefined)
  ELSE Returned(f, Str(memory.content))

JSON_readFileContent(im, f, file) ==
  ContentOfParsed(im, f, file, ReadFileSync(f, file), JSONParse(ReadFileSync(f, file).data))

\* The filter callback of fuzzySearch on one file, after the read and the
\* parse: the error it throws ("" when none) and its answer.
MatchParsed(r, memory, q) ==
  IF r.err # "" THEN [err |-> r.err, hit |-> FALSE]
  ELSE IF ~memory.ok THEN [err |-> "SyntaxError", hit |-> FALSE]
  ELSE IF memory.kind # "object" THEN [err |-> "TypeError", hit |-> FALSE]
  ELSE [err |-> "",
        hit |-> \/ Includes(ToLowerCase(memory.content), q)
                \/ \E i \in 1..Len(memory.tags) : Includes(ToLowerCase(memory.tags[i]), q)]

JSON_match(f, p, query) ==
  MatchParsed(ReadFileSync(f, p), JSONParse(ReadFileSync(f, p).data), ToLowerCase(query))

\* The first element of answers with an error, 0 when there is none.
FirstError(answers) ==
  IF \A i \in 1..Len(answers) : answers[i].err = "" THEN 0
  ELSE CHOOSE i \in 1..Len(answers) :
         answers[i].err # "" /\ \A k \in 1..(i - 1) : answers[k].err = ""

\* The files the callback answered true for, or the error of the first
\* file it threw on.
Filtered(im, f, query, files, answers, bad) ==
  IF bad # 0
  THEN Threw(f, FileOperationError(im, "fuzzy search", query, <<answers[bad].err>>))
  ELSE Returned(f, [t |-> "list",
                    v |-> Flatten([i \in 1..Len(files) |->
                                     IF answers[i].hit THEN <<files[i]>> ELSE <<>>])])

SearchIn(im, f, query, files, answers) ==
  Filtered(im, f, query, files, answers, FirstError(answers))

JSON_searchFiles(im, f, query, files) ==
  SearchIn(im, f, query, files, [i \in 1..Len(files) |-> JSON_match(f, files[i], query)])

JSON_fuzzySearch(im, f, query) == JSON_searchFiles(im, f, query, JSON_readAllFiles(f))

----------------------------------------------------------------------------
(* RAWMemoryManager *)

RAW_createFile(im, f, name, content, ioFault) ==
  ThenSync(im, "create RAW file", PathText(name), f, WriteFileSync(f, name, content), ioFault)

RAW_createDir(im, f, name, ioFault) ==
  ThenSync(im, "create directory", PathText(name), f, MakeDir(im, f, name), ioFault)

RAW_moveFile(im, f, source, dest, ioFault) ==
  ThenSync(im, "move file", MoveText(source, dest), f, MovePath(im, f, source, dest), ioFault)

RAW_moveDir(im, f, source, dest, ioFault) ==
  ThenSync(im, "move directory", MoveText(source, dest), f,
           MovePath(im, f, source, dest), ioFault)

RAW_appendContent(im, f, file, content, ioFault) ==
  ThenSync(im, "append content", PathText(file), f, AppendFileSync(f, file, content), ioFault)

RAW_renameFile(im, f, oldName, newName, ioFault) ==
  ThenSync(im, "rename file", MoveText(oldName, newName), f,
           MovePath(im, f, oldName, newName), ioFault)

RECURSIVE getAllFiles(_, _)
\* Every non-directory path under dir, depth first in directory order.
getAllFiles(f, dir) ==
  LET files == Readdir(f, dir)
      sub(i) == LET fullPath == Append(dir, files[i])
                IN  IF IsDir(f, fullPath) THEN getAllFiles(f, fullPath) ELSE <<fullPath>>
  IN  Flatten([i \in 1..Len(files) |-> sub(i)])

RAW_readAllFiles(f) == getAllFiles(f, <<>>)

RawContent(im, f, file, r) ==
  IF r.err # ""
  THEN Threw(f, FileOperationError(im, "read file content", PathText(file), <<r.err>>))
  ELSE Returned(f, Str(r.data))

RAW_readFileContent(im, f, file) == RawContent(im, f, file, ReadFileSync(f, file))

\* The filter callback of the raw fuzzySearch on one file: readAllFiles()
\* yields full paths (MEMORY_DIR joined with the relative path), and
\* readFileContent(file) joins MEMORY_DIR with its argument again, so the
\* path it opens is the full path taken relative to the root.
RawMatched(o, q) ==
  IF o.threw THEN [bad |-> TRUE, err |-> o.msg, hit |-> FALSE]
  ELSE [bad |-> FALSE, err |-> <<>>, hit |-> Includes(ToLowerCase(o.value.v), q)]

RAW_match(im, f, p, query) ==
  RawMatched(RAW_readFileContent(im, f, <<MEMORY_DIR>> \o p), ToLowerCase(query))

\* The error of the first file the callback threw on is the message of the
\* error readFileContent threw, wrapped again.
RawFiltered(im, f, query, files, answers, bad) ==
  IF bad # 0
  THEN Threw(f, FileOperationError(im, "fuzzy search", query, answers[bad].err))
  ELSE Returned(f, [t |-> "list",
                    v |-> Flatten([i \in 1..Len(files) |->
                                     IF answers[i].hit THEN <<files[i]>> ELSE <<>>])])

RawSearchIn(im, f, query, files, answers) ==
  RawFiltered(im, f, query, files, answers,
              IF \A i \in 1..Len(answers) : ~answers[i].bad THEN 0
              ELSE CHOOSE i \in 1..Len(answers) :
                     answers[i].bad /\ \A k \in 1..(i - 1) : ~answers[k].bad)

RAW_searchFiles(im, f, query, files) ==
  RawSearchIn(im, f, query, files,
              [i \in 1..Len(files) |-> RAW_match(im, f, files[i], query)])

RAW_fuzzySearch(im, f, query) == RAW_searchFiles(im, f, query, RAW_readAllFiles(f))

----------------------------------------------------------------------------
(* The tool-call handler *)

Actions == {"create_file", "create_dir", "move_file", "move_dir", "append_content",
            "rename_file", "read_all_files", "read_file_content", "fuzzy_search"}
Tools == {"MODE_JSON", "MODE_RAW"}

\* A variant of the argument test that lets every argument through.
RejectedNever(a) == FALSE

\* !args?.x || typeof args.x !== "string"
Rejected(a) == a.t = "undefined" \/ (a.t = "string" /\ a.v = <<>>) \/ a.t # "string"

\* `${x}` in a template
Template(a) == IF a.t = "undefined" THEN <<"undefined">> ELSE a.v

\* array.join("\n") of a list of paths, each printed in full.
JoinPaths(paths) == Join([i \in 1..Len(paths) |-> FullText(paths[i])], NL)

NoArgs == [name |-> Undefined, content |-> Undefined, tags |-> Undefined,
           source |-> Undefined, dest |-> Undefined, query |-> Undefined]

\* ` in ${MEMORY_DIR}`, which the source appends to its success texts.
InDir(im) == IF im = "ts" THEN <<" in ">> \o MEMORY_DIR ELSE <<>>

\* The text of a case whose method returned: the result of a reading
\* method, a sentence for a mutating one.
ResultText(im, r, o) ==
  LET a == r.args
  IN  CASE r.action = Str(<<"create_file">>) ->
             Str(<<"File ">> \o PathText(a.name.v) \o <<" created successfully">> \o InDir(im))
        [] r.action = Str(<<"create_dir">>) ->
             Str(<<"Directory ">> \o PathText(a.name.v) \o <<" created successfully">>
                 \o InDir(im))
        [] r.action = Str(<<"move_file">>) ->
             Str(<<"File moved from ">> \o MoveText(a.source.v, a.dest.v) \o InDir(im))
        [] r.action = Str(<<"move_dir">>) ->
             Str(<<"Directory moved from ">> \o MoveText(a.source.v, a.dest.v) \o InDir(im))
        [] r.action = Str(<<"append_content">>) ->
             Str(<<"Content appended to ">> \o PathText(a.name.v) \o InDir(im))
        [] r.action = Str(<<"rename_file">>) ->
             Str(<<"File renamed from ">> \o MoveText(a.source.v, a.dest.v) \o InDir(im))
        [] o.value.t = "list" -> Str(JoinPaths(o.value.v))
        [] OTHER -> o.value

Finish(im, r, o) == IF o.threw THEN o ELSE Returned(o.fs, ResultText(im, r, o))

\* A variant of the default case's message that leaves the action out.
UnknownActionErrorUnnamed(action) == <<"Unknown action">>

\* The message of the default case of the switch.
UnknownActionError(action) == <<"Unknown action: ">> \o Template(action)

\* The switch of the handler: the arguments of the case are checked, then
\* the method of the selected manager is called.
Dispatch(im, f, now, r, ioFault) ==
  LET json == (r.tool = "MODE_JSON")
      a == r.args
  IN  CASE r.action = Str(<<"create_file">>) ->
             IF Rejected(a.name) \/ Rejected(a.content)
             THEN Threw(f, <<"Name and content are required for creating a file">>)
             ELSE Finish(im, r, IF json
                                THEN JSON_createFile(im, f, now, a.name.v, a.content.v, ioFault)
                                ELSE RAW_createFile(im, f, a.name.v, a.content.v, ioFault))
        [] r.action = Str(<<"create_dir">>) ->
             IF Rejected(a.name)
             THEN Threw(f, <<"Name is required for creating a directory">>)
             ELSE Finish(im, r, IF json THEN JSON_createDir(im, f, a.name.v, ioFault)
                                ELSE RAW_createDir(im, f, a.name.v, ioFault))
        [] r.action = Str(<<"move_file">>) ->
             IF Rejected(a.source) \/ Rejected(a.dest)
             THEN Threw(f, <<"Source and destination are required for moving a file">>)
             ELSE Finish(im, r, IF json
                                THEN JSON_moveFile(im, f, a.source.v, a.dest.v, ioFault)
                                ELSE RAW_moveFile(im, f, a.source.v, a.dest.v, ioFault))
        [] r.action = Str(<<"move_dir">>) ->
             IF Rejected(a.source) \/ Rejected(a.dest)
             THEN Threw(f, <<"Source and destination are required for moving a directory">>)
             ELSE Finish(im, r, IF json
                                THEN JSON_moveDir(im, f, a.source.v, a.dest.v, ioFault)
                                ELSE RAW_moveDir(im, f, a.source.v, a.dest.v, ioFault))
        [] r.action = Str(<<"append_content">>) ->
             IF Rejected(a.name) \/ Rejected(a.content)
             THEN Threw(f, <<"Name and content are required for appending content">>)
             ELSE Finish(im, r, IF json
                                THEN JSON_appendContent(im, f, now, a.name.v, a.content.v, ioFault)
                                ELSE RAW_appendContent(im, f, a.name.v, a.content.v, ioFault))
        [] r.action = Str(<<"rename_file">>) ->
             IF Rejected(a.source) \/ Rejected(a.dest)
             THEN Threw(f, <<"Source and destination are required for renaming a file">>)
             ELSE Finish(im, r, IF json
                                THEN JSON_renameFile(im, f, a.source.v, a.dest.v, ioFault)
                                ELSE RAW_renameFile(im, f, a.source.v, a.dest.v, ioFault))
        [] r.action = Str(<<"read_all_files">>) ->
             Finish(im, r, Returned(f, [t |-> "list",
                                        v |-> IF json THEN JSON_readAllFiles(f)
                                              ELSE RAW_readAllFiles(f)]))
        [] r.action = Str(<<"read_file_content">>) ->
             IF Rejected(a.name)
             THEN Threw(f, <<"Name is required for reading file content">>)
             ELSE Finish(im, r, IF json THEN JSON_readFileContent(im, f, a.name.v)
                                ELSE RAW_readFileContent(im, f, a.name.v))
        [] r.action = Str(<<"fuzzy_search">>) ->
             IF Rejected(a.query)
             THEN Threw(f, <<"Query is required for fuzzy search">>)
             ELSE Finish(im, r, IF json THEN JSON_fuzzySearch(im, f, a.query.v)
                                ELSE RAW_fuzzySearch(im, f, a.query.v))
        [] OTHER -> Threw(f, UnknownActionError(r.action))

\* The payload text of an outcome: the result, or "Error: " and the message
\* of the error caught.
PayloadText(o) == IF o.threw THEN Str(<<"Error: ">> \o o.msg) ELSE o.value

Payload(o) == [fs |-> o.fs, text |-> PayloadText(o)]

\* The handler: its payload and the storage root it leaves.
Handler(im, f, now, r, ioFault) == Payload(Dispatch(im, f, now, r, ioFault))

----------------------------------------------------------------------------
(* The requests of the callers *)

NameVals == {Str(p) : p \in NameArgs}
ContentVals == {Str(c) : c \in Contents}
\* Missing, empty and non-string arguments.
BadVals == {Undefined, Str(<<>>), NumberArg}

\* The tags argument of create_file, when given.
SomeTags == [t |-> "array", v |-> <<<<"A">>, <<"1">>>>]

Request(tool, action, args, fault) ==
  [tool |-> tool, action |-> action, args |-> args, fault |-> fault]

NoRequest == Request("none", Undefined, NoArgs, FALSE)

NameContent(name, content) == [NoArgs EXCEPT !.name = name, !.content = content]
SourceDest(source, dest) == [NoArgs EXCEPT !.source = source, !.dest = dest]

\* The arguments of a call with two of them: a name and a content, or a
\* source and a destination.
ArgsOf(named, x, y) == IF named THEN NameContent(x, y) ELSE SourceDest(x, y)

\* Requests with two arguments x and y: every valid pair, and a bad value
\* in either place.
TwoArgs(action, X, Y, named) ==
  {Request(tool, Str(<<action>>), ArgsOf(named, x, y), FALSE) :
     tool \in Tools, x \in X, y \in Y}
  \cup {Request(tool, Str(<<action>>), ArgsOf(named, b, CHOOSE y \in Y : TRUE), FALSE) :
          tool \in Tools, b \in BadVals}
  \cup {Request(tool, Str(<<action>>), ArgsOf(named, CHOOSE x \in X : TRUE, Undefined), FALSE) :
          tool \in Tools}

CreateFileRequests ==
  TwoArgs("create_file", NameVals, ContentVals, TRUE)
  \cup {Request("MODE_JSON", Str(<<"create_file">>),
                [NameContent(Str(<<CompA>>), c) EXCEPT !.tags = SomeTags], FALSE) :
          c \in ContentVals}

CreateDirRequests ==
  {Request(tool, Str(<<"create_dir">>), [NoArgs EXCEPT !.name = name], FALSE) :
     tool \in Tools, name \in NameVals \cup BadVals}

MoveFileRequests == TwoArgs("move_file", NameVals, NameVals, FALSE)
MoveDirRequests == TwoArgs("move_dir", NameVals, NameVals, FALSE)
AppendContentRequests == TwoArgs("append_content", NameVals, ContentVals, TRUE)
RenameFileRequests == TwoArgs("rename_file", NameVals, NameVals, FALSE)

ReadAllFilesRequests ==
  {Request(tool, Str(<<"read_all_files">>), NoArgs, FALSE) : tool \in Tools}

ReadFileContentRequests ==
  {Request(tool, Str(<<"read_file_content">>), [NoArgs EXCEPT !.name = name], FALSE) :
     tool \in Tools, name \in NameVals \cup BadVals}

FuzzySearchRequests ==
  {Request(tool, Str(<<"fuzzy_search">>), [NoArgs EXCEPT !.query = query], FALSE) :
     tool \in Tools, query \in ContentVals \cup BadVals}

\* An action name outside the nine, or none at all, with or without
\* arguments.
UnknownActionRequests ==
  {Request(tool, action, [NoArgs EXCEPT !.name = name], FALSE) :
     tool \in Tools, action \in {Str(<<"delete_file">>), Undefined},
     name \in {Undefined, Str(<<CompA>>)}}

Mutating == {Str(<<"create_file">>), Str(<<"create_dir">>), Str(<<"move_file">>),
             Str(<<"move_dir">>), Str(<<"append_content">>), Str(<<"rename_file">>)}

----------------------------------------------------------------------------
(* The state machine: one action per case of the handler's switch *)

Init ==
  /\ impl \in {"ts", "js"}
  /\ fs = initializeDirectory
  /\ memoryGraph = [t \in {} |-> {}]
  /\ clock = 0
  /\ nOps = 0
  /\ req = NoRequest
  /\ resp = Undefined
  /\ pre = initializeDirectory

\* The environment of a request whose outcome without a fault is o: the
\* write of the manifest may fail where it is attempted, and the clock read
\* by the structured create and append is the one of the last read or one
\* later.
FaultsOf(r, o) == IF r.action \in Mutating /\ ~o.threw THEN BOOLEAN ELSE {FALSE}
TicksOf(r, o) ==
  IF ~o.threw /\ r.tool = "MODE_JSON"
     /\ r.action \in {Str(<<"create_file">>), Str(<<"append_content">>)}
  THEN {0, 1} ELSE {0}

\* A variant in which the request is handled once more before its payload
\* is returned, as if a second invocation ran in between.
CommitInterleaved(r, now, h) ==
  /\ fs' = Handler(impl, h.fs, now, r, FALSE).fs
  /\ resp' = h.text
  /\ req' = r
  /\ clock' = now
  /\ pre' = fs
  /\ nOps' = nOps + 1
  /\ UNCHANGED <<impl, memoryGraph>>

\* The handler's payload h for request r becomes the state.
Commit(r, now, h) ==
  /\ fs' = h.fs
  /\ resp' = h.text
  /\ req' = r
  /\ clock' = now
  /\ pre' = fs
  /\ nOps' = nOps + 1
  /\ UNCHANGED <<impl, memoryGraph>>

Run(r0, o) ==
  \E fault \in FaultsOf(r0, o), tick \in TicksOf(r0, o) :
    Commit([r0 EXCEPT !.fault = fault], clock + tick,
           Handler(impl, fs, clock + tick, [r0 EXCEPT !.fault = fault], fault))

\* One invocation of the handler, run to completion.
Invoke(r0) == Run(r0, Dispatch(impl, fs, clock, r0, FALSE))

CreateFile ==
  /\ nOps < MaxOps
  /\ \E r \in CreateFileRequests : Invoke(r)

CreateDir ==
  /\ nOps < MaxOps
  /\ \E r \in CreateDirRequests : Invoke(r)

MoveFile ==
  /\ nOps < MaxOps
  /\ \E r \in MoveFileRequests : Invoke(r)

MoveDir ==
  /\ nOps < MaxOps
  /\ \E r \in MoveDirRequests : Invoke(r)

AppendContent ==
  /\ nOps < MaxOps
  /\ \E r \in AppendContentRequests : Invoke(r)

RenameFile ==
  /\ nOps < MaxOps
  /\ \E r \in RenameFileRequests : Invoke(r)

ReadAllFiles ==
  /\ nOps < MaxOps
  /\ \E r \in ReadAllFilesRequests : Invoke(r)

ReadFileContent ==
  /\ nOps < MaxOps
  /\ \E r \in ReadFileContentRequests : Invoke(r)

FuzzySearch ==
  /\ nOps < MaxOps
  /\ \E r \in FuzzySearchRequests : Invoke(r)

UnknownAction ==
  /\ nOps < MaxOps
  /\ \E r \in UnknownActionRequests : Invoke(r)


Next ==
  \/ CreateFile
  \/ CreateDir
  \/ MoveFile
  \/ MoveDir
  \/ AppendContent
  \/ RenameFile
  \/ ReadAllFiles
  \/ ReadFileContent
  \/ FuzzySearch
  \/ UnknownAction

Spec == Init /\ [][Next]_vars

----------------------------------------------------------------------------
(* The tag graph on its own.  No method of the program calls connectTags;  *)
(* here it is applied to tag sequences drawn from a small set of tags,     *)
(* repeated tags included, starting from the empty graph.                  *)

TagNames == {<<"a">>, <<"A">>, <<"1">>}
TagSeqs == SeqsUpTo(TagNames, MaxTags)

\* One call connectTags(tags); req keeps the tags of the last call.
ConnectTags ==
  /\ nOps < MaxCalls
  /\ \E tags \in TagSeqs :
       /\ memoryGraph' = connectTags(memoryGraph, tags)
       /\ req' = [NoRequest EXCEPT !.args.tags = [t |-> "array", v |-> tags]]
  /\ nOps' = nOps + 1
  /\ UNCHANGED <<impl, fs, clock, resp, pre>>

GraphNext == ConnectTags

GraphSpec == Init /\ [][GraphNext]_vars

----------------------------------------------------------------------------
(* Properties.  req is the last request handled, resp the text of its      *)
(* payload, pre the storage root before it and fs the storage root after.  *)

\* A payload is an error payload when its text is a string that begins with
\* "Error: ".
IsError(t) == t.t = "string" /\ Len(t.v) > 0 /\ t.v[1] = "Error: "
IsSuccess(t) == ~IsError(t)

\* An argument that is missing, empty or not a string.
Bad(a) == a.t # "string" \/ a.v = <<>>

Act(name) == Str(<<name>>)

Members(list) == {list[i] : i \in 1..Len(list)}

ReadRequest(tool, name) ==
  Request(tool, Act("read_file_content"), [NoArgs EXCEPT !.name = name], FALSE)

\* C1: after a successful mutating operation the content of DIRECTORY.txt
\* is the tree text computed for the storage root as the operation left it.
C1_ManifestIsTree ==
  (req.action \in Mutating /\ IsSuccess(resp))
    => /\ IsFile(fs, DIRECTORY_FILE)
       /\ fs[DIRECTORY_FILE].data = generateDirectoryTree(fs, <<>>)

\* C2: a successful create_file(name, content) followed at once by
\* read_file_content(name) in the same mode returns the content created.
C2_CreateThenRead ==
  (req.action = Act("create_file") /\ IsSuccess(resp))
    => Handler(impl, fs, clock, ReadRequest(req.tool, req.args.name), FALSE).text
         = req.args.content

\* C3: the text of every payload the handler returns is a string.
C3_TextIsString == req # NoRequest => resp.t = "string"

\* The files under the root whose content contains q, whatever the case.
RawHits(f, q) ==
  SelectSeq(RAW_readAllFiles(f),
            LAMBDA p : Includes(ToLowerCase(f[p].data), ToLowerCase(q)))

\* C4: raw fuzzy_search(q) with a non-empty q succeeds and returns exactly
\* the files under the storage root whose content contains q
\* case-insensitively.
C4_RawSearchFindsContent ==
  (req.tool = "MODE_RAW" /\ req.action = Act("fuzzy_search") /\ ~Bad(req.args.query))
    => resp = Str(JoinPaths(RawHits(pre, req.args.query.v)))

\* Whether the record stored at p has q in its content or in one of its tags.
RecordHit(f, p, q) ==
  LET m == JSONParse(ReadFileSync(f, p).data)
  IN  /\ m.ok
      /\ m.kind = "object"
      /\ \/ Includes(ToLowerCase(m.content), ToLowerCase(q))
         \/ \E i \in 1..Len(m.tags) : Includes(ToLowerCase(m.tags[i]), ToLowerCase(q))

JsonHits(f, q) == SelectSeq(JSON_readAllFiles(f), LAMBDA p : RecordHit(f, p, q))

\* Whether q is in one of the tags given to create_file and not in its content.
OnlyInTags(r, q) ==
  /\ r.args.tags.t = "array"
  /\ \E i \in 1..Len(r.args.tags.v) :
       Includes(ToLowerCase(r.args.tags.v[i]), ToLowerCase(q))
  /\ ~Includes(ToLowerCase(r.args.content.v), ToLowerCase(q))

\* C5: structured fuzzy_search(q) returns exactly the records listed by
\* read_all_files with q in their content or in a tag, and a record just
\* created with tags that contain q and content that does not is among them.
C5_StructuredSearchFindsTags ==
  /\ (req.tool = "MODE_JSON" /\ req.action = Act("fuzzy_search") /\ ~Bad(req.args.query))
       => resp = Str(JoinPaths(JsonHits(pre, req.args.query.v)))
  /\ \A q \in Contents :
       (req.tool = "MODE_JSON" /\ req.action = Act("create_file") /\ IsSuccess(resp)
          /\ OnlyInTags(req, q))
         => /\ ~JSON_fuzzySearch(impl, fs, q).threw
            /\ AddJson(req.args.name.v) \in Members(JSON_fuzzySearch(impl, fs, q).value.v)

\* What read_all_files lists in the mode of the tool.
Listing(tool, f) == IF tool = "MODE_JSON" THEN JSON_readAllFiles(f) ELSE RAW_readAllFiles(f)

\* C6: after a successful move_file(a, b) of an existing file a to another
\* path b, read_all_files lists b and not a, and the same move_file issued
\* again once a is gone returns an error payload.
C6_MoveThenListThenMoveAgain ==
  (/\ req.action = Act("move_file")
   /\ IsSuccess(resp)
   /\ IsFile(pre, req.args.source.v)
   /\ req.args.source.v # req.args.dest.v)
    => /\ req.args.dest.v \in Members(Listing(req.tool, fs))
       /\ req.args.source.v \notin Members(Listing(req.tool, fs))
       /\ ~Exists(fs, req.args.source.v)
            => IsError(Handler(impl, fs, clock, [req EXCEPT !.fault = FALSE], FALSE).text)

\* Whether one of the arguments the action of r requires is bad.
BadArguments(r) ==
  CASE r.action \in {Act("create_file"), Act("append_content")} ->
         Bad(r.args.name) \/ Bad(r.args.content)
    [] r.action \in {Act("create_dir"), Act("read_file_content")} -> Bad(r.args.name)
    [] r.action \in {Act("move_file"), Act("move_dir"), Act("rename_file")} ->
         Bad(r.args.source) \/ Bad(r.args.dest)
    [] r.action = Act("fuzzy_search") -> Bad(r.args.query)
    [] OTHER -> FALSE

Shown(action) == IF action.t = "undefined" THEN <<"undefined">> ELSE action.v

\* C8: an invocation whose action is none of the nine returns an error
\* payload whose text contains the action name, for either tool.
C8_UnknownActionIsNamed ==
  (req # NoRequest /\ (req.action.t # "string" \/ req.action.v \notin {<<a>> : a \in Actions}))
    => (IsError(resp) /\ Includes(resp.v, Shown(req.action)))

C8_Witness ==
  /\ req.action = Act("delete_file")
  /\ req.args.name = Str(<<CompA>>)
  /\ resp = Str(<<"Error: ", "Unknown action: ", "delete_file">>)
  /\ nOps = 2

AppendRequest(tool, name, content) ==
  Request(tool, Act("append_content"), NameContent(name, Str(content)), FALSE)

\* The content of file name as read_file_content of the mode reports it,
\* after append_content(name, content) on storage root f.
ContentAfterAppend(tool, f, name, content) ==
  Handler(impl, Handler(impl, f, clock, AppendRequest(tool, name, content), FALSE).fs,
          clock, ReadRequest(tool, name), FALSE).text

\* C9: appending a and then b to a file leaves it with the content that
\* appending a followed by b in one call leaves it with, in each mode.
C9_AppendIsAssociative ==
  \A b \in Contents :
    (req.action = Act("append_content") /\ IsSuccess(resp))
      => ContentAfterAppend(req.tool, fs, req.args.name, b)
           = ContentAfterAppend(req.tool, pre, req.args.name, req.args.content.v \o b)

C9_Witness ==
  /\ req.tool = "MODE_JSON"
  /\ req.action = Act("append_content")
  /\ IsSuccess(resp)
  /\ req.args.name = Str(<<CompAJson>>)
  /\ req.args.content = Str(<<"A">>)
  /\ ContentAfterAppend(req.tool, fs, req.args.name, <<"1">>) = Str(<<"a", "A", "1">>)

\* C10: when a mutating action returns an error payload, the files and
\* directories under the storage root and their contents are as before it.
C10_ErrorLeavesRootUnchanged ==
  (req.action \in Mutating /\ IsError(resp)) => fs = pre

\* C11: a mutating invocation whose resynchronization of the manifest fails
\* (its write fails in the environment, or the manifest path holds a
\* directory) returns an error payload.
C11_FailedResyncIsAnError ==
  (req.action \in Mutating /\ (req.fault \/ IsDir(fs, DIRECTORY_FILE))) => IsError(resp)

C11_Witness ==
  /\ req.tool = "MODE_RAW"
  /\ req.action = Act("create_file")
  /\ req.fault
  /\ IsFile(fs, req.args.name.v) /\ ~Exists(pre, req.args.name.v)
  /\ IsError(resp)

\* The tags given to a create_file call.
TagsOf(r) == IF r.args.tags.t = "array" THEN Members(r.args.tags.v) ELSE {}

\* C12: after a structured create_file with tags, every tag given is a key
\* of the tag graph and its set holds every other tag given.
C12_TagsAreConnected ==
  (req.tool = "MODE_JSON" /\ req.action = Act("create_file") /\ IsSuccess(resp))
    => \A t \in TagsOf(req) :
         t \in DOMAIN memoryGraph /\ (TagsOf(req) \ {t}) \subseteq memoryGraph[t]

\* The paths of the root that hold a record, and the record held at one.
IsRecord(f, p) ==
  IsFile(f, p) /\ JSONParse(f[p].data).ok /\ JSONParse(f[p].data).kind = "object"
Records(f) == {p \in DOMAIN f : IsRecord(f, p)}

\* C13: no two records on disk, created by distinct structured create_file
\* calls, carry the same id.
C13_IdsAreUnique ==
  \A p, q \in Records(fs) : p # q => JSONParse(fs[p].data).id # JSONParse(fs[q].data).id

\* C14: structured read_all_files returns exactly the records directly
\* under the storage root, raw read_all_files exactly the non-directory
\* paths anywhere under it.
C14_ReadAllFilesListsTheUnits ==
  (req.action = Act("read_all_files"))
    => /\ resp = Str(JoinPaths(Listing(req.tool, pre)))
       /\ Members(Listing(req.tool, pre))
            = IF req.tool = "MODE_JSON" THEN {p \in Records(pre) : Len(p) = 1}
              ELSE {p \in DOMAIN pre : IsFile(pre, p) /\ ~Outside(p)}

C16_RenameToItselfChangesNothing ==
  (/\ req.action = Act("rename_file")
   /\ ~BadArguments(req)
   /\ req.args.source = req.args.dest
   /\ IsFile(pre, req.args.source.v)
   /\ ~req.fault)
    => /\ IsSuccess(resp)
       /\ IsFile(fs, req.args.source.v)
       /\ fs[req.args.source.v].data = pre[req.args.source.v].data

\* C17: every file that structured read_all_files lists deserializes to a
\* record: timestamp, id, tags and content.
C17_ListedUnitsAreRecords ==
  \A p \in Members(JSON_readAllFiles(fs)) : IsRecord(fs, p)

\* C18: structured append_content and read_file_content on a file that is
\* not a well-formed record return an error payload, and append_content
\* leaves the file as it was.
C18_MalformedTargetIsAnError ==
  (/\ req.tool = "MODE_JSON"
   /\ req.action \in {Act("append_content"), Act("read_file_content")}
   /\ ~BadArguments(req)
   /\ IsFile(pre, req.args.name.v)
   /\ ~IsRecord(pre, req.args.name.v))
    => /\ IsError(resp)
       /\ fs[req.args.name.v] = pre[req.args.name.v]

\* The record stored at path p of root f.
RecordAt(f, p) == JSONParse(f[p].data)

\* C19: a successful structured append_content(file, c) leaves at file the
\* record it found with c added to the end of its content and the
\* timestamp of the call, the id and the tags as they were, and changes no
\* other path than the manifest.
C19_AppendChangesContentOnly ==
  (req.tool = "MODE_JSON" /\ req.action = Act("append_content") /\ IsSuccess(resp))
    => /\ IsRecord(pre, req.args.name.v)
       /\ IsRecord(fs, req.args.name.v)
       /\ RecordAt(fs, req.args.name.v).content
            = RecordAt(pre, req.args.name.v).content \o req.args.content.v
       /\ RecordAt(fs, req.args.name.v).timestamp = ToISOString(clock)
       /\ RecordAt(fs, req.args.name.v).id = RecordAt(pre, req.args.name.v).id
       /\ RecordAt(fs, req.args.name.v).tags = RecordAt(pre, req.args.name.v).tags
       /\ DOMAIN fs \ {DIRECTORY_FILE} = DOMAIN pre \ {DIRECTORY_FILE}
       /\ \A p \in DOMAIN pre \ {req.args.name.v, DIRECTORY_FILE} : fs[p] = pre[p]

C19_Witness ==
  /\ req.tool = "MODE_JSON"
  /\ req.action = Act("append_content")
  /\ IsSuccess(resp)
  /\ RecordAt(fs, req.args.name.v).content = <<"a", "A">>
  /\ RecordAt(fs, req.args.name.v).timestamp # RecordAt(pre, req.args.name.v).timestamp
  /\ RecordAt(fs, req.args.name.v).id = <<"0">>
  /\ clock = 1

\* The path under d that a path q under s is moved to.
Moved(s, d, q) == d \o SubSeq(q, Len(s) + 1, Len(q))

\* C20: after a successful move_file, move_dir or rename_file of an
\* existing source to dest, what was at source is at dest, unchanged, and
\* nothing outside source, dest and the manifest has changed.
C20_MovePreservesTheUnit ==
  (/\ req.action \in {Act("move_file"), Act("move_dir"), Act("rename_file")}
   /\ IsSuccess(resp)
   /\ Exists(pre, req.args.source.v))
    => /\ \A q \in Under(pre, req.args.source.v) :
            /\ Moved(req.args.source.v, req.args.dest.v, q) \in DOMAIN fs
            /\ fs[Moved(req.args.source.v, req.args.dest.v, q)] = pre[q]
       /\ \A p \in (DOMAIN fs \cup DOMAIN pre) \ {DIRECTORY_FILE} :
            (~IsPrefix(req.args.source.v, p) /\ ~IsPrefix(req.args.dest.v, p))
              => (p \in DOMAIN fs /\ p \in DOMAIN pre /\ fs[p] = pre[p])

\* Whether every path of f other than the manifest is in g with the node it
\* has in f, and g has no other path: nothing was created, moved or removed.
SameUnits(f, g) ==
  /\ DOMAIN g \ {DIRECTORY_FILE} = DOMAIN f \ {DIRECTORY_FILE}
  /\ \A p \in DOMAIN f \ {DIRECTORY_FILE} : g[p] = f[p]

\* C21: move_file and move_dir whose source does not exist, or whose dest
\* has no parent directory, return an error payload in both modes, and
\* nothing under the storage root is moved.
C21_MoveOfMissingFails ==
  (/\ req.action \in {Act("move_file"), Act("move_dir")}
   /\ ~BadArguments(req)
   /\ (~Exists(pre, req.args.source.v) \/ ~IsDir(pre, Parent(req.args.dest.v))))
    => (IsError(resp) /\ SameUnits(pre, fs))

\* The root initializeDirectory() has made when it calls the resync for the
\* first time: MEMORY_DIR and ARCHIVE_DIR, and no manifest yet.
FreshRoot == Put(<<>>, ARCHIVE_DIR, DirNode)

\* Whether two resyncs in a row from root f, both succeeding, write the
\* same manifest content.
ResyncTwiceAgrees(f, first) ==
  (first.err = "" /\ updateDirectoryFile(first.fs, FALSE).err = "")
    => updateDirectoryFile(first.fs, FALSE).fs[DIRECTORY_FILE].data
         = first.fs[DIRECTORY_FILE].data

\* C22: from the freshly initialized root without a manifest and from every
\* reachable storage root, two resyncs in a row with no mutation in between
\* write byte-identical manifest content.
C22_ResyncIsIdempotent ==
  /\ ResyncTwiceAgrees(FreshRoot, updateDirectoryFile(FreshRoot, FALSE))
  /\ ResyncTwiceAgrees(fs, updateDirectoryFile(fs, FALSE))

\* Whether path p is the last entry of its directory in root f.
IsLastChild(f, p) ==
  LET items == Readdir(f, Parent(p)) IN items[Len(items)] = Base(p)

\* The indentation in front of the children of directory p: one piece per
\* directory on the way down to p, by whether that directory is a last child.
IndentOf(f, p) ==
  [k \in 1..Len(p) |-> IF IsLastChild(f, SubSeq(p, 1, k)) THEN IndentLast ELSE IndentMid]

\* The line of child c of directory p: indentation, glyph, name, and "/"
\* behind a directory.
ChildLine(f, p, c) ==
  IndentOf(f, p)
  \o <<IF IsLastChild(f, Append(p, c)) THEN GlyphLast ELSE GlyphMid>>
  \o c
  \o (IF IsDir(f, Append(p, c)) THEN <<"/">> ELSE <<>>)

\* C23: every child of every directory under the storage root has its own
\* line in the generated tree text: indentation, the glyph of a last or of
\* an earlier child, the name, "/" behind a directory.
C23_EveryChildHasItsLine ==
  \A q \in {p \in DOMAIN fs : ~Outside(p)} :
    ChildLine(fs, Parent(q), Base(q))
      \in Members(Split(generateDirectoryTree(fs, <<>>), NL))

\* C24: in every reachable state the archive directory exists at its path
\* and is empty, as initialization made it.
C24_ArchiveIsUntouched ==
  IsDir(fs, ARCHIVE_DIR) /\ Under(fs, ARCHIVE_DIR) = {ARCHIVE_DIR}

\* The path create_file writes: the name, with ".json" added in structured
\* mode.
TargetOf(r) == IF r.tool = "MODE_JSON" THEN AddJson(r.args.name.v) ELSE r.args.name.v

\* C25: create_file on a path where a unit (a file other than the manifest)
\* exists returns a success payload, and the file afterwards holds the new
\* content only: in raw mode the content given, in structured mode a record
\* with the timestamp and the id of this call and exactly the content given.
C25_CreateOverwrites ==
  (/\ req.action = Act("create_file")
   /\ ~BadArguments(req)
   /\ ~req.fault
   /\ IsFile(pre, TargetOf(req))
   /\ TargetOf(req) # DIRECTORY_FILE)
    => /\ IsSuccess(resp)
       /\ IsFile(fs, TargetOf(req))
       /\ IF req.tool = "MODE_RAW" THEN fs[TargetOf(req)].data = req.args.content.v
          ELSE /\ IsRecord(fs, TargetOf(req))
               /\ RecordAt(fs, TargetOf(req)).content = req.args.content.v
               /\ RecordAt(fs, TargetOf(req)).timestamp = ToISOString(clock)
               /\ RecordAt(fs, TargetOf(req)).id = NowString(clock)

C25_Witness ==
  /\ req.tool = "MODE_JSON"
  /\ req.action = Act("create_file")
  /\ IsSuccess(resp)
  /\ IsRecord(pre, TargetOf(req))
  /\ RecordAt(pre, TargetOf(req)).content = <<"a">>
  /\ RecordAt(pre, TargetOf(req)).id = <<"0">>
  /\ RecordAt(fs, TargetOf(req)).content = <<"1">>
  /\ RecordAt(fs, TargetOf(req)).id = <<"1">>

\* C26: no invocation creates, modifies, moves or removes anything outside
\* the storage root, whatever ".." segments its path arguments hold, and a
\* read_file_content of a path outside the root returns an error payload.
C26_PathsStayInsideTheRoot ==
  /\ \A p \in DOMAIN fs \cup DOMAIN pre :
       Outside(p) => (p \in DOMAIN fs /\ p \in DOMAIN pre /\ fs[p] = pre[p])
  /\ (req.action = Act("read_file_content") /\ ~BadArguments(req)
        /\ Outside(req.args.name.v))
       => IsError(resp)

\* The paths of root f that hold a file.
Files(f) == {p \in DOMAIN f : IsFile(f, p)}

\* C27: append_content on a path that holds no file returns an error
\* payload in both modes and leaves the set of files as it was.
C27_AppendNeverCreates ==
  (req.action = Act("append_content") /\ ~BadArguments(req) /\ ~IsFile(pre, req.args.name.v))
    => (IsError(resp) /\ Files(fs) = Files(pre))

\* C28: with an entry directly under the root whose name ends in ".json"
\* and that is no record (a raw file, a renamed file or a directory),
\* structured fuzzy_search still returns a success payload listing the
\* records that match the query.
C28_SearchSkipsForeignFiles ==
  (/\ req.tool = "MODE_JSON"
   /\ req.action = Act("fuzzy_search")
   /\ ~BadArguments(req)
   /\ \E p \in Members(JSON_readAllFiles(pre)) : ~IsRecord(pre, p))
    => /\ IsSuccess(resp)
       /\ resp = Str(JoinPaths(JsonHits(pre, req.args.query.v)))

\* C29: after any sequence of connectTags calls the tag graph is symmetric
\* and has no self-loops: t is in the set of s exactly when s is in the set
\* of t, and no tag is in its own set.
C29_GraphIsSymmetric ==
  \A s, t \in TagNames :
    /\ (t \in Adjacent(memoryGraph, s)) <=> (s \in Adjacent(memoryGraph, t))
    /\ s \notin Adjacent(memoryGraph, s)

C29_Witness ==
  /\ nOps = MaxCalls
  /\ req.args.tags.v = <<<<"a">>, <<"A">>, <<"a">>>>
  /\ Adjacent(memoryGraph, <<"a">>) = {<<"A">>}
  /\ Adjacent(memoryGraph, <<"A">>) = {<<"a">>, <<"1">>}
  /\ Adjacent(memoryGraph, <<"1">>) = {<<"A">>}

====
